---------------------------- MODULE Spec2Model ----------------------------
(***************************************************************************)
(* A model of the Spanish Learning Assistant: the configuration and the    *)
(* secrets store (config_manager.py), the LLM backend router and the       *)
(* listing of the local models (ollama_manager.py), the tutor              *)
(* (spanish_tutor.py), the file diagnostics (diagnose_files.py) and the    *)
(* conversation history of the session (main.py).                          *)
(*                                                                         *)
(* Python values are represented as follows.                               *)
(*   dict            a function whose domain is its set of keys            *)
(*   None            the record None                                       *)
(*   str/bool/int    the TLA+ value; the float 0.5 is written "0.5"        *)
(*   list/tuple/set  under the key "window" only, a record tagged with the *)
(*                   Python type in field py                               *)
(*   a file          a record with field kind: "absent", or the kind of    *)
(*                   text it holds                                         *)
(***************************************************************************)
EXTENDS Integers, Sequences, FiniteSets, TLC

VARIABLES
    _config,        \* ConfigManager._config: None or the cached dict
    config_file,    \* content of CONFIG_FILE (~/.spanish_tutor/config.json)
    temp_file,      \* content of CONFIG_FILE.with_suffix('.tmp')
    pc,             \* position of the process inside a save: "idle" between calls
    frame,          \* the call in progress while a save is under way
    pre,            \* cache and file as they were when the current/last call began
    last,           \* the last completed call and what it returned
    OLLAMA_AVAILABLE,   \* ollama_manager.OLLAMA_AVAILABLE, set at import
    _env,           \* ConfigManager._env: None or the cached secrets
    request,        \* the arguments of the last call_llm, and the backend's answer
    result,         \* what that call did: returned or raised, the string
                    \* returned, the calls and requests it made
    env_file,       \* content of ENV_FILE (~/.spanish_tutor/.env.txt)
    project_env_file,   \* content of PROJECT_ENV_FILE (<cwd>/.env.txt)
    env_mode,       \* permission bits of ENV_FILE, "none" while it does not exist
    session_state   \* st.session_state of main.py: the settings in use and
                    \* the conversation history

cvars == <<_config, config_file, temp_file, pc, frame, pre, last>>
fvars == <<env_file, project_env_file>>
rvars == <<OLLAMA_AVAILABLE, _env, request, result, fvars, env_mode, session_state>>
vars == <<cvars, rvars>>

None == [py_none |-> TRUE]

-----------------------------------------------------------------------------
(* config_manager.py: constants *)

DEFAULT_CONFIG ==
    [ version                  |-> "1.0.0",
      preferred_model          |-> "deepseek-v3.1:671b-cloud",
      use_cloud                |-> FALSE,
      cloud_endpoint           |-> "https://ollama.com",
      speech_timeout           |-> 10,
      phrase_time_limit        |-> 15,
      ambient_noise_duration   |-> "0.5",
      spanish_dialect          |-> "es-ES",
      english_dialect          |-> "en-US",
      speech_speed             |-> FALSE,
      max_conversation_history |-> 50,
      auto_play_audio          |-> TRUE,
      show_timestamps          |-> FALSE,
      log_level                |-> "INFO",
      theme                    |-> "light" ]

\* {**a, **b}: the keys of both, b's value where both have the key
Merge(a, b) ==
    [k \in (DOMAIN a) \cup (DOMAIN b) |-> IF k \in DOMAIN b THEN b[k] ELSE a[k]]

\* d[key] = value on a dict
DictSet(d, key, value) ==
    [k \in (DOMAIN d) \cup {key} |-> IF k = key THEN value ELSE d[k]]

-----------------------------------------------------------------------------
(* json.dump / json.load *)

\* keys whose values are Python containers (tagged records) in this model
ContainerKeys == {"window"}

\* json.dump raises TypeError on a value that is no dict, list, tuple, str,
\* int, float, bool or None
Serializable(cfg) ==
    \A k \in DOMAIN cfg : k \in ContainerKeys => cfg[k].py \in {"list", "tuple"}

\* the JSON value json.dump writes for a Python value: a tuple is written as
\* an array, which json.load reads back as a list
ToJson(k, v) ==
    IF k \in ContainerKeys /\ v.py = "tuple" THEN [v EXCEPT !.py = "list"] ELSE v

\* a dump that writes the settings the program knows and drops the others
JsonDump_known_keys(cfg) ==
    [kind |-> "object",
     members |-> [k \in (DOMAIN cfg) \ {"legacy_key"} |-> ToJson(k, cfg[k])]]

\* the text json.dump(config, f, indent=2) leaves in f when it completes
JsonDump(cfg) ==
    [kind |-> "object", members |-> [k \in DOMAIN cfg |-> ToJson(k, cfg[k])]]

\* what is in the file when json.dump raised part-way, or right after open(.., 'w')
Truncated == [kind |-> "invalid"]
Absent == [kind |-> "absent"]

Exists(file) == file.kind # "absent"

-----------------------------------------------------------------------------
(* ConfigManager.load_config, lines 140-165, for an empty cache and an      *)
(* existing file: the dict it caches and returns                           *)

\* the merge of line 148 written the other way round: the defaults win
LoadFromFile_defaults_win(file) ==
    IF file.kind = "object"
    THEN Merge(file.members, DEFAULT_CONFIG)
    ELSE DEFAULT_CONFIG

\* a load that gives up on a file it cannot read and returns no setting
LoadFromFile_empty_on_error(file) ==
    IF file.kind = "object"
    THEN Merge(DEFAULT_CONFIG, file.members)
    ELSE [k \in {} |-> ""]

LoadFromFile(file) ==
    IF file.kind = "object"
    THEN Merge(DEFAULT_CONFIG, file.members)    \* line 148
    ELSE DEFAULT_CONFIG                         \* lines 157-165: JSONDecodeError,
                                                \* or TypeError on a non-object


-----------------------------------------------------------------------------
(* The inputs of the configuration store *)

\* dicts passed to save_config by a caller
FullDark    == [DEFAULT_CONFIG EXCEPT !.use_cloud = TRUE, !.theme = "dark"]
WithUnknown == DictSet(DEFAULT_CONFIG, "legacy_key", "kept")
ThemeOnly   == [theme |-> "dark"]
WithTuple   == DictSet(DEFAULT_CONFIG, "window", [py |-> "tuple", items |-> <<"a", "b">>])
WithSet     == DictSet(DEFAULT_CONFIG, "window", [py |-> "set", items |-> <<"a">>])

SaveArgs == {DEFAULT_CONFIG, FullDark, WithUnknown, ThemeOnly, WithTuple, WithSet}

\* (key, value) pairs passed to set
SetArgs == {<<"theme", "dark">>, <<"use_cloud", TRUE>>}

\* a config.json written by an earlier version of the program: it lacks the
\* keys added since, overrides two defaults and has a key unknown today
OldVersionFile ==
    [kind |-> "object",
     members |-> [version |-> "0.9.0", theme |-> "dark", legacy_key |-> "kept"]]

\* what may be found in config.json when the process starts, or after the
\* user edited or removed the file
ExternalFiles ==
    { Absent,
      [kind |-> "invalid"],             \* not JSON (empty, truncated, hand-edited)
      [kind |-> "array"],               \* JSON, but no object
      OldVersionFile,
      JsonDump(DEFAULT_CONFIG) }

NoFrame == [op |-> "none"]

-----------------------------------------------------------------------------
(* Calls of the configuration store *)

\* a call begins: remember the cache and the file it found, and the call
\* that completed before it
Enter ==
    pre' = [cache |-> _config,
            file  |-> config_file,
            after |-> IF last.op = "save_config"
                      THEN [op |-> last.op, arg |-> last.arg, ret |-> last.ret]
                      ELSE [op |-> last.op]]

\* ConfigManager.ensure_directories, lines 84-103: what it may leave behind.
\* It swallows every exception; CONFIG_DIR exists already when a file is in
\* it.  "ok" stands for CONFIG_DIR in place, with or without the logs
\* directory: the callers do not look at the result.
ensure_directories(file) ==
    {"ok"} \cup (IF Exists(file) THEN {} ELSE {"no_config_dir"})

\* save_config(fr.arg) is entered from the call described by fr, with
\* config.json holding `file`: ensure_directories (line 190) changes neither
\* file and its result is not looked at; the next step is the open of line 120
BeginSave(fr, file) ==
    /\ pc' = "save_open"
    /\ \E dirs \in ensure_directories(file) :
          frame' = DictSet(DictSet(fr, "file0", file), "dirs", dirs)

-----------------------------------------------------------------------------
(* ConfigManager.load_config, lines 128-165 *)

\* a load that reads config.json whenever the file exists
LoadWith_reads_file(name, cache) ==
    IF Exists(config_file)
    THEN /\ _config' = LoadFromFile(config_file)
         /\ last' = [op |-> name, ret |-> LoadFromFile(config_file), source |-> "file"]
         /\ UNCHANGED <<config_file, temp_file, pc, frame>>
    ELSE IF cache # None
    THEN /\ last' = [op |-> name, ret |-> cache, source |-> "cache"]
         /\ UNCHANGED <<_config, config_file, temp_file, pc, frame>>
    ELSE /\ _config' = DEFAULT_CONFIG
         /\ BeginSave([op |-> name, arg |-> DEFAULT_CONFIG], config_file)
         /\ UNCHANGED <<config_file, temp_file, last>>

\* a load that returns the defaults for a missing file and writes nothing
LoadWith_no_bootstrap(name, cache) ==
    IF cache # None
    THEN /\ last' = [op |-> name, ret |-> cache, source |-> "cache"]
         /\ UNCHANGED <<_config, config_file, temp_file, pc, frame>>
    ELSE /\ _config' = LoadFromFile(config_file)
         /\ last' = [op |-> name, ret |-> LoadFromFile(config_file), source |-> "file"]
         /\ UNCHANGED <<config_file, temp_file, pc, frame>>

\* load_config with the cache as `cache` (reload_config passes None, line 174)
LoadWith(name, cache) ==
    IF cache # None
    THEN \* lines 137-138
         /\ last' = [op |-> name, ret |-> cache, source |-> "cache"]
         /\ UNCHANGED <<_config, config_file, temp_file, pc, frame>>
    ELSE IF Exists(config_file)
    THEN \* lines 141-150, 157-165
         /\ _config' = LoadFromFile(config_file)
         /\ last' = [op |-> name, ret |-> LoadFromFile(config_file), source |-> "file"]
         /\ UNCHANGED <<config_file, temp_file, pc, frame>>
    ELSE \* lines 151-155: the defaults are cached, then saved
         /\ _config' = DEFAULT_CONFIG
         /\ BeginSave([op |-> name, arg |-> DEFAULT_CONFIG], config_file)
         /\ UNCHANGED <<config_file, temp_file, last>>

load_config ==
    /\ UNCHANGED rvars
    /\ pc = "idle"
    /\ Enter
    /\ LoadWith("load_config", _config)

\* ConfigManager.reload_config, lines 167-175
reload_config ==
    /\ UNCHANGED rvars
    /\ pc = "idle"
    /\ Enter
    /\ LoadWith("reload_config", None)

\* ConfigManager.save_config, lines 177-202: entry
save_config ==
    /\ UNCHANGED rvars
    /\ pc = "idle"
    /\ Enter
    /\ \E cfg \in SaveArgs :
          BeginSave([op |-> "save_config", arg |-> cfg], config_file)
    /\ UNCHANGED <<_config, config_file, temp_file, last>>

\* reset_config, lines 308-313
reset_config ==
    /\ UNCHANGED rvars
    /\ pc = "idle"
    /\ Enter
    /\ BeginSave([op |-> "reset_config", arg |-> DEFAULT_CONFIG], config_file)
    /\ UNCHANGED <<_config, config_file, temp_file, last>>

\* ConfigManager.set, lines 218-231.  load_config returns the cached dict
\* itself, so config[key] = value (line 230) changes the cache before the save.
set ==
    /\ UNCHANGED rvars
    /\ pc = "idle"
    /\ Enter
    /\ \E kv \in SetArgs :
        IF _config # None \/ Exists(config_file)
        THEN LET config == IF _config # None THEN _config
                           ELSE LoadFromFile(config_file)
                 changed == DictSet(config, kv[1], kv[2])
             IN  /\ _config' = changed
                 /\ BeginSave([op |-> "set", arg |-> changed, key |-> kv[1]],
                              config_file)
        ELSE \* load_config first saves the defaults (line 154)
             /\ _config' = DEFAULT_CONFIG
             /\ BeginSave([op |-> "set_load", arg |-> DEFAULT_CONFIG,
                           key |-> kv[1], value |-> kv[2]], config_file)
    /\ UNCHANGED <<config_file, temp_file, last>>

-----------------------------------------------------------------------------
(* ConfigManager._atomic_write, lines 105-126, inside save_config, 189-202  *)

\* save_config returns ok to the call of frame; `cache` is self._config and
\* `file` the content of config.json then
Return(ok, cache, file, failed_at) ==
    IF frame.op = "set_load"
    THEN \* load_config returns the cached defaults whatever the save did
         \* (lines 153-155); set goes on with lines 230-231
         LET changed == DictSet(cache, frame.key, frame.value)
         IN  /\ _config' = changed
             /\ BeginSave([op |-> "set", arg |-> changed, key |-> frame.key], file)
             /\ UNCHANGED last
    ELSE /\ _config' = cache
         /\ pc' = "idle"
         /\ frame' = NoFrame
         /\ last' =
              [op |-> frame.op,
               arg |-> frame.arg,
               source |-> "save",
               saved |-> ok,
               failed_at |-> failed_at,
               file0 |-> frame.file0,
               dirs |-> frame.dirs,
               ret |-> CASE frame.op \in {"load_config", "reload_config"} -> cache
                         [] frame.op = "reset_config" -> DEFAULT_CONFIG
                         [] OTHER -> ok]

\* a save that takes the configuration into the cache before it writes it
Cleanup_cache_first(failed_at) ==
    /\ temp_file' = Absent
    /\ Return(FALSE, frame.arg, config_file, failed_at)

\* the except branch of _atomic_write, lines 123-126: the temporary file is
\* removed if it exists, the exception goes on to save_config, which returns
\* False (lines 200-202) and leaves self._config alone
Cleanup(failed_at) ==
    /\ temp_file' = Absent
    /\ Return(FALSE, _config, config_file, failed_at)

\* open(temp_file, 'w'), line 120: it fails where CONFIG_DIR is missing
SaveOpen ==
    /\ UNCHANGED rvars
    /\ pc = "save_open"
    /\ \/ /\ frame.dirs # "no_config_dir"
          /\ temp_file' = Truncated
          /\ pc' = "save_write"
          /\ UNCHANGED <<_config, frame, last>>
       \/ Cleanup("open")
    /\ UNCHANGED <<config_file, pre>>

\* a save that writes config.json itself instead of the temporary file
SaveWrite_in_place ==
    /\ UNCHANGED rvars
    /\ pc = "save_write"
    /\ \/ /\ Serializable(frame.arg)
          /\ config_file' = JsonDump(frame.arg)
          /\ temp_file' = JsonDump(frame.arg)
          /\ pc' = "save_replace"
          /\ UNCHANGED <<_config, frame, last>>
       \/ /\ Cleanup("write")
          /\ config_file' = Truncated
    /\ UNCHANGED pre

\* json.dump(config, f, ...), line 194, and the close of f on leaving the
\* with of line 120
SaveWrite ==
    /\ UNCHANGED rvars
    /\ pc = "save_write"
    /\ \/ /\ Serializable(frame.arg)
          /\ temp_file' = JsonDump(frame.arg)
          /\ pc' = "save_replace"
          /\ UNCHANGED <<_config, frame, last>>
       \/ Cleanup("write")          \* TypeError, or the write or the close fails
    /\ UNCHANGED <<config_file, pre>>

\* temp_file.replace(file_path), line 122; then lines 196-198
SaveReplace ==
    /\ UNCHANGED rvars
    /\ pc = "save_replace"
    /\ \/ /\ config_file' = temp_file
          /\ temp_file' = Absent
          /\ Return(TRUE, frame.arg, temp_file, "none")
       \/ /\ Cleanup("replace")
          /\ UNCHANGED config_file
    /\ UNCHANGED pre

-----------------------------------------------------------------------------
(* The environment *)

\* the process is killed and started again: the cache is lost, the files stay
Crash ==
    /\ UNCHANGED rvars
    /\ pc # "idle"
    /\ _config' = None
    /\ pc' = "idle"
    /\ frame' = NoFrame
    /\ last' = [op |-> "crash", at |-> pc, during |-> frame.op,
                 file0 |-> frame.file0]
    /\ UNCHANGED <<config_file, temp_file, pre>>

\* the user edits or deletes config.json between two calls
ExternalEdit ==
    /\ UNCHANGED rvars
    /\ pc = "idle"
    /\ \E f \in ExternalFiles : f # config_file /\ config_file' = f
    /\ last' = [op |-> "external_edit"]
    /\ UNCHANGED <<_config, temp_file, pc, frame, pre>>

\* load_config returns self._config itself (lines 138, 150, 155, 160, 165),
\* not a copy: a caller that assigns to a key of the dict it was given
\* assigns to the cache
CallerModifies ==
    /\ UNCHANGED rvars
    /\ pc = "idle"
    /\ last.op \in {"load_config", "reload_config"}
    /\ \E kv \in SetArgs :
          /\ IF kv[1] \in DOMAIN _config THEN _config[kv[1]] # kv[2] ELSE TRUE
          /\ _config' = DictSet(_config, kv[1], kv[2])
    /\ last' = [op |-> "caller_modifies", source |-> "caller"]
    /\ UNCHANGED <<config_file, temp_file, pc, frame, pre>>

ConfigNext ==
    \/ CallerModifies
    \/ load_config
    \/ reload_config
    \/ save_config
    \/ reset_config
    \/ set
    \/ SaveOpen
    \/ SaveWrite
    \/ SaveReplace
    \/ Crash
    \/ ExternalEdit


-----------------------------------------------------------------------------
(* ollama_manager.py: the text of an exception                             *)
(*                                                                         *)
(* str(e) is a sequence of fragments.  The code looks for six words in     *)
(* str(e).lower(); the two tables say how lower() changes a fragment and   *)
(* which of the words a fragment holds (case matters to Python's `in`).    *)

LowerCase(f) ==
    CASE f = "Unauthorized"                   -> "unauthorized"
      [] f = "[Errno 111] Connection refused" -> "[errno 111] connection refused"
      [] f = "Failed to resolve "             -> "failed to resolve "
      [] f = "Request timed out"              -> "request timed out"
      [] OTHER                                -> f

WordsIn(f) ==
    CASE f = "unauthorized"                   -> {"unauthorized"}
      [] f = "(status code: 401)"             -> {"401"}
      [] f = "(status code: 404)"             -> {"404"}
      [] f = "' not found"                    -> {"not found"}
      [] f = "[Errno 111] Connection refused" -> {"refused"}
      [] f = "[errno 111] connection refused" -> {"connection", "refused"}
      [] f = "Failed to resolve "             -> {"resolve"}
      [] f = "failed to resolve "             -> {"resolve"}
      [] f = "http://localhost:4010"          -> {"401"}
      [] OTHER                                -> {}

\* str(e).lower()
Lower(text) == [i \in 1..Len(text) |-> LowerCase(text[i])]

\* word in text
In(word, text) == \E i \in 1..Len(text) : word \in WordsIn(text[i])

-----------------------------------------------------------------------------
(* ollama_manager.py: constants and messages *)

CLOUD_MODELS ==
    [n \in {"deepseek-v3.1:671b-cloud", "gpt-oss:120b-cloud",
            "gpt-oss:20b-cloud", "qwen3-coder:480b-cloud"} |->
        CASE n = "deepseek-v3.1:671b-cloud" ->
                 "671B parameters - Excellent multilingual support (RECOMMENDED)"
          [] n = "gpt-oss:120b-cloud" -> "120B parameters - GPT-style open source model"
          [] n = "gpt-oss:20b-cloud" -> "20B parameters - Smaller GPT-style model"
          [] n = "qwen3-coder:480b-cloud" -> "480B parameters - Specialized for coding"]

\* get_cloud_models, lines 115-128: the names of the catalog
get_cloud_models == DOMAIN CLOUD_MODELS

\* the string a call returns on success: response['message']['content']
Reply(content) == [kind |-> "reply", content |-> content]

\* lines 153, 241
LocalLibraryMissing ==
    [kind |-> "error", head |-> "Error: Ollama not available. Please install it."]
CloudLibraryMissing ==
    [kind |-> "error", head |-> "Error: Ollama library not installed.",
     advice |-> <<"Please install: pip install ollama">>]

\* lines 230-236
NoApiKey ==
    [kind |-> "error", head |-> "Error: No API key found.",
     advice |-> <<"1. Go to https://ollama.com/settings/keys",
                  "2. Create an API key",
                  "3. Save it in Options -> API Key Configuration">>]

\* lines 273-279
InvalidApiKey(e) ==
    [kind |-> "error", head |-> "Error: Invalid API key.",
     advice |-> <<"1. Check your API key at https://ollama.com/settings/keys",
                  "2. Update in Options -> API Key Configuration">>,
     details |-> e]

\* the list as it would read had the catalog gained a model after it was typed
ListedCloudModels_stale ==
    <<"deepseek-v3.1:671b-cloud", "gpt-oss:120b-cloud", "gpt-oss:20b-cloud">>

\* the catalog as lines 286-289 spell it
ListedCloudModels ==
    <<"deepseek-v3.1:671b-cloud", "gpt-oss:120b-cloud",
      "gpt-oss:20b-cloud", "qwen3-coder:480b-cloud">>

\* lines 283-291
ModelNotFound(model, e) ==
    [kind |-> "error", head |-> "Error: Model '{model}' not found on Ollama cloud.",
     model |-> model,
     listed |-> ListedCloudModels,
     details |-> e]

\* lines 295-302
CloudUnreachable(endpoint, e) ==
    [kind |-> "error", head |-> "Error: Cannot connect to {endpoint}",
     endpoint |-> endpoint,
     advice |-> <<"1. Internet connection",
                  "2. Endpoint URL (should be: https://ollama.com)",
                  "3. Firewall settings">>,
     details |-> e]

\* lines 306-311
CloudOtherError(e) ==
    [kind |-> "error", head |-> "Error calling Ollama cloud:",
     details |-> e,
     advice |-> <<"1. Regenerate API key", "2. Check https://ollama.com/status">>]

\* lines 179-186
LocalUnreachable(e) ==
    [kind |-> "error", head |-> "Error: Cannot connect to Ollama service.",
     advice |-> <<"- Windows: Check system tray for Ollama icon",
                  "- If not running: Start Ollama from Start Menu",
                  "- Or run in terminal: ollama serve">>,
     details |-> e]

\* lines 189-195
LocalOtherError(model, e) ==
    [kind |-> "error", head |-> "Error calling local LLM: {e}",
     details |-> e,
     advice |-> <<"1. Ensure Ollama is running",
                  "2. Verify model exists: ollama list",
                  "3. Try: ollama run {model}">>,
     model |-> model]

\* the two messages of a chat request, lines 163-166 and 255-258
Messages(prompt, system_prompt) ==
    <<[role |-> "system", content |-> system_prompt],
      [role |-> "user", content |-> prompt]>>

-----------------------------------------------------------------------------
(* call_local_llm, lines 131-198.  `available` is OLLAMA_AVAILABLE and     *)
(* `answer` what the local service does with the request, if one is made.  *)
(* The result is the string returned and the requests the call made.       *)

\* the except branch, lines 175-198
\* the test of the cloud path pasted here, on str(e) as it is
LocalError_cloud_words(model, e) ==
    IF In("connection", e) \/ In("resolve", e)
    THEN LocalUnreachable(e)
    ELSE LocalOtherError(model, e)

LocalError(model, e) ==
    LET error_msg == Lower(e)
    IN  IF In("connection", error_msg) \/ In("refused", error_msg)
        THEN LocalUnreachable(e)
        ELSE LocalOtherError(model, e)

call_local_llm(prompt, system_prompt, model, available, answer) ==
    IF ~available
    THEN [value |-> LocalLibraryMissing, events |-> <<>>]
    ELSE LET chat == [ev |-> "ollama.chat", model |-> model,
                      messages |-> Messages(prompt, system_prompt)]
         IN  [value  |-> IF answer.ok THEN Reply(answer.content)
                         ELSE LocalError(model, answer.text),
              events |-> <<chat>>]

-----------------------------------------------------------------------------
(* call_cloud_llm, lines 201-314 *)

\* the except branch, lines 269-314
CloudError(model, endpoint, e) ==
    LET error_msg == Lower(e)
    IN  IF In("401", error_msg) \/ In("unauthorized", error_msg)
        THEN InvalidApiKey(e)
        ELSE IF In("404", error_msg) \/ In("not found", error_msg)
        THEN ModelNotFound(model, e)
        ELSE IF In("connection", error_msg) \/ In("resolve", error_msg)
        THEN CloudUnreachable(endpoint, e)
        ELSE CloudOtherError(e)

\* the client is built before the key is looked at
call_cloud_llm_client_first(prompt, system_prompt, model, endpoint, api_key, available, answer) ==
    LET client == [ev |-> "Client", host |-> endpoint,
                   authorization |-> <<"Bearer ", api_key>>]
        chat   == [ev |-> "client.chat", host |-> endpoint, model |-> model,
                   messages |-> Messages(prompt, system_prompt)]
    IN  IF ~available
        THEN [value |-> CloudLibraryMissing, events |-> <<>>]
        ELSE IF api_key = ""
        THEN [value |-> NoApiKey, events |-> <<client>>]
        ELSE [value  |-> IF answer.ok THEN Reply(answer.content)
                         ELSE CloudError(model, endpoint, answer.text),
              events |-> <<client, chat>>]

call_cloud_llm(prompt, system_prompt, model, endpoint, api_key, available, answer) ==
    IF api_key = ""
    THEN [value |-> NoApiKey, events |-> <<>>]
    ELSE IF ~available
    THEN [value |-> CloudLibraryMissing, events |-> <<>>]
    ELSE LET client == [ev |-> "Client", host |-> endpoint,
                        authorization |-> <<"Bearer ", api_key>>]
             chat   == [ev |-> "client.chat", host |-> endpoint, model |-> model,
                        messages |-> Messages(prompt, system_prompt)]
         IN  [value  |-> IF answer.ok THEN Reply(answer.content)
                         ELSE CloudError(model, endpoint, answer.text),
              events |-> <<client, chat>>]

-----------------------------------------------------------------------------
(* config_manager.get_api_key, lines 346-356, on the dict load_env returns *)

get_api_key(env_vars) ==
    IF "OLLAMA_API_KEY" \in DOMAIN env_vars THEN env_vars["OLLAMA_API_KEY"] ELSE ""

\* config.get(key, default)
DictGet(d, key, default) == IF key \in DOMAIN d THEN d[key] ELSE default

-----------------------------------------------------------------------------
(* call_llm, lines 317-352.  env_vars is the dict load_env returns if       *)
(* get_api_key is called.  The result says whether the call returned or     *)
(* raised, the string returned, and the backend calls and requests made.    *)

\* config.get('use_cloud', True): the cloud is the default
call_llm_cloud_default(prompt, system_prompt, config, env_vars, available, answer) ==
    LET model    == DictGet(config, "preferred_model", "")
        endpoint == DictGet(config, "cloud_endpoint", "https://ollama.com")
        api_key  == get_api_key(env_vars)
    IN  IF "preferred_model" \notin DOMAIN config
        THEN [status |-> "raised", exception |-> "KeyError: 'preferred_model'",
              events |-> <<>>]
        ELSE IF DictGet(config, "use_cloud", TRUE)
        THEN LET r == call_cloud_llm(prompt, system_prompt, model, endpoint,
                                     api_key, available, answer)
             IN  [status |-> "returned", value |-> r.value,
                  events |-> <<[ev |-> "call_cloud_llm", model |-> model,
                                endpoint |-> endpoint, api_key |-> api_key]>>
                             \o r.events]
        ELSE LET r == call_local_llm(prompt, system_prompt, model, available, answer)
             IN  [status |-> "returned", value |-> r.value,
                  events |-> <<[ev |-> "call_local_llm", model |-> model]>>
                             \o r.events]

call_llm(prompt, system_prompt, config, env_vars, available, answer) ==
    IF "preferred_model" \notin DOMAIN config
    THEN \* line 336: config['preferred_model']
         [status |-> "raised", exception |-> "KeyError: 'preferred_model'",
          events |-> <<>>]
    ELSE LET model     == config["preferred_model"]
             use_cloud == DictGet(config, "use_cloud", FALSE)
         IN  IF use_cloud
             THEN LET endpoint == DictGet(config, "cloud_endpoint", "https://ollama.com")
                      api_key  == get_api_key(env_vars)
                      r == call_cloud_llm(prompt, system_prompt, model, endpoint,
                                          api_key, available, answer)
                  IN  [status |-> "returned", value |-> r.value,
                       events |-> <<[ev |-> "call_cloud_llm", model |-> model,
                                     endpoint |-> endpoint, api_key |-> api_key]>>
                                  \o r.events]
             ELSE LET r == call_local_llm(prompt, system_prompt, model,
                                          available, answer)
                  IN  [status |-> "returned", value |-> r.value,
                       events |-> <<[ev |-> "call_local_llm", model |-> model]>>
                                  \o r.events]

-----------------------------------------------------------------------------
(* The inputs of the router *)

Prompts ==
    { [prompt |-> "Translate to Spanish: Hello", system_prompt |-> "translate"],
      [prompt |-> "Review this Spanish text: Hola", system_prompt |-> "correct"] }

ModelNames == {"deepseek-v3.1:671b-cloud", "llama2"}

\* the endpoint is free text in the options page; the second one is a proxy
\* on port 4010
Endpoints == {"https://ollama.com", "http://localhost:4010"}

\* any dict a caller may pass as config: each of the three keys that call_llm
\* reads is there or not
RouterConfigs ==
    { [k \in D |-> CASE k = "preferred_model" -> m
                     [] k = "use_cloud" -> u
                     [] k = "cloud_endpoint" -> e] :
        D \in SUBSET {"preferred_model", "use_cloud", "cloud_endpoint"},
        m \in ModelNames, u \in BOOLEAN, e \in Endpoints }

\* what load_env finds when the secrets are not cached yet
NoSecrets == [k \in {} |-> ""]
SecretsOnDisk ==
    { NoSecrets,
      [OLLAMA_API_KEY |-> ""],
      [OLLAMA_API_KEY |-> "sk-test"],
      [OTHER_KEY |-> "x"] }

Answered == [ok |-> TRUE, content |-> "Spanish: Hola"]
Failed(kind, text) == [ok |-> FALSE, failure |-> kind, text |-> text]

\* what the cloud service, or the way to it, may answer to a chat request
\* for `model` sent to `endpoint`.  A transport error may name the endpoint.
CloudAnswers(model, endpoint) ==
    { Answered,
      Failed("unauthorized", <<"Unauthorized">>),
      Failed("unauthorized", <<"Unauthorized", "(status code: 401)">>),
      Failed("not_found", <<"model '", model, "' not found">>),
      Failed("not_found", <<"model '", model, "' not found", "(status code: 404)">>),
      Failed("connection", <<"[Errno 111] Connection refused">>),
      Failed("connection", <<endpoint, "[Errno 111] Connection refused">>),
      Failed("dns", <<"Failed to resolve ", endpoint>>),
      Failed("other", <<"Request timed out">>),
      Failed("other", <<"'message'">>) }       \* a response without 'message'

\* what the local service may answer
LocalAnswers(model) ==
    { Answered,
      Failed("connection", <<"[Errno 111] Connection refused">>),
      Failed("other", <<"model '", model, "' not found", "(status code: 404)">>),
      Failed("other", <<"Request timed out">>),
      Failed("other", <<"'message'">>) }

NoAnswer == [ok |-> FALSE, failure |-> "no request", text |-> <<>>]

\* the backend requests among the events of a call
IsRequest(e) == e.ev \in {"ollama.chat", "client.chat"}
Requests(events) == SelectSeq(events, IsRequest)

-----------------------------------------------------------------------------
(* The router's state after import, and its calls *)

NoRequest == [op |-> "none"]
NoResult == [status |-> "none", events |-> <<>>]

\* one call of call_llm(prompt, system_prompt, config)
CallLLM ==
    /\ \E p \in Prompts, config \in RouterConfigs,
          disk \in IF _env = None THEN SecretsOnDisk ELSE {_env} :
        LET model    == DictGet(config, "preferred_model", "")
            cloud    == DictGet(config, "use_cloud", FALSE)
            endpoint == DictGet(config, "cloud_endpoint", "https://ollama.com")
            \* get_api_key is called on the cloud path only (lines 341-343);
            \* load_env returns the cache, or reads the file and caches it
            keyed    == "preferred_model" \in DOMAIN config /\ cloud
            env_vars == IF _env # None THEN _env ELSE disk
        IN  \E answer \in IF cloud THEN CloudAnswers(model, endpoint)
                                   ELSE LocalAnswers(model) :
              LET r == call_llm(p.prompt, p.system_prompt, config, env_vars,
                                OLLAMA_AVAILABLE, answer)
              IN  /\ result' = r
                  /\ request' = [op |-> "call_llm", prompt |-> p.prompt,
                                 system_prompt |-> p.system_prompt,
                                 config |-> config,
                                 answer |-> IF Requests(r.events) # <<>>
                                            THEN answer ELSE NoAnswer]
                  /\ _env' = IF keyed THEN env_vars ELSE _env
    /\ UNCHANGED <<OLLAMA_AVAILABLE, cvars, fvars, env_mode, session_state>>

\* the program is started again, perhaps after the library was installed or
\* the secrets file was edited
Restart ==
    /\ request.op # "none"
    /\ OLLAMA_AVAILABLE' \in BOOLEAN
    /\ _env' = None
    /\ request' = NoRequest
    /\ result' = NoResult
    /\ UNCHANGED <<cvars, fvars, env_mode, session_state>>

RouterNext ==
    \/ CallLLM
    \/ Restart

-----------------------------------------------------------------------------
(* config_manager.py: the text of a secrets file                           *)
(*                                                                         *)
(* A line (without its newline) is a sequence of tokens: a blank, a tab,   *)
(* "#", "=", or a word, which holds none of these four.  A str is the      *)
(* concatenation of its tokens.                                            *)

IsSpace(t) == t \in {" ", "\t"}

RECURSIVE Join(_)
Join(tokens) == IF tokens = <<>> THEN "" ELSE tokens[1] \o Join(Tail(tokens))

RECURSIVE LStrip(_)
LStrip(tokens) ==
    IF tokens # <<>> /\ IsSpace(tokens[1]) THEN LStrip(Tail(tokens)) ELSE tokens

RECURSIVE RStrip(_)
RStrip(tokens) ==
    IF tokens # <<>> /\ IsSpace(tokens[Len(tokens)])
    THEN RStrip(SubSeq(tokens, 1, Len(tokens) - 1))
    ELSE tokens

\* str.strip()
Strip(tokens) == RStrip(LStrip(tokens))

\* the index of the first '=' of a line that has one
FirstEquals(tokens) ==
    CHOOSE i \in 1..Len(tokens) :
        tokens[i] = "=" /\ \A j \in 1..(i - 1) : tokens[j] # "="

\* a line whose value is the one of the first line of a key, not of the last
ParseLine_first_wins(env_vars, raw) ==
    LET line == Strip(raw)
    IN  IF line = <<>> \/ line[1] = "#" THEN env_vars
        ELSE IF \E i \in 1..Len(line) : line[i] = "="
        THEN LET i == FirstEquals(line)
                 key == Join(Strip(SubSeq(line, 1, i - 1)))
                 value == Join(Strip(SubSeq(line, i + 1, Len(line))))
             IN  IF key \in DOMAIN env_vars THEN env_vars
                 ELSE DictSet(env_vars, key, value)
        ELSE env_vars

\* lines 262-271: the body of the loop over the lines of the file
ParseLine(env_vars, raw) ==
    LET line == Strip(raw)                                  \* line 262
    IN  IF line = <<>> \/ line[1] = "#" THEN env_vars       \* lines 264-265
        ELSE IF \E i \in 1..Len(line) : line[i] = "="       \* line 267
        THEN LET i == FirstEquals(line)                     \* line.split('=', 1)
                 key == Join(Strip(SubSeq(line, 1, i - 1)))
                 value == Join(Strip(SubSeq(line, i + 1, Len(line))))
             IN  DictSet(env_vars, key, value)              \* line 269
        ELSE env_vars                                       \* lines 270-271

RECURSIVE ParseLines(_, _)
ParseLines(env_vars, lines) ==
    IF lines = <<>> THEN env_vars
    ELSE ParseLines(ParseLine(env_vars, lines[1]), Tail(lines))

Text(lines) == [kind |-> "text", lines |-> lines]

\* a file that exists and cannot be read: open or the decoding of a line
\* raises
Unreadable == [kind |-> "unreadable"]

\* lines 258-280: the dict load_env makes of the file it has chosen
ReadEnv(file) ==
    IF file.kind = "text"
    THEN ParseLines(NoSecrets, file.lines)
    ELSE NoSecrets                          \* lines 277-280

-----------------------------------------------------------------------------
(* ConfigManager.load_env, lines 233-280 *)

\* a choice that looks in the user-home directory first
ChosenEnvFile_home_first(project, home) ==
    IF Exists(home) THEN "home"
    ELSE IF Exists(project) THEN "project"
    ELSE "none"

\* lines 246-256: env_file_to_use
ChosenEnvFile(project, home) ==
    IF Exists(project) THEN "project"
    ELSE IF Exists(home) THEN "home"
    ELSE "none"

\* a load that turns to the home file when it cannot read the project one
LoadEnv_falls_back(cache, project, home) ==
    IF cache # None
    THEN [ret |-> cache, read |-> "cache"]
    ELSE IF project.kind = "text" THEN [ret |-> ReadEnv(project), read |-> "project"]
    ELSE IF Exists(home) THEN [ret |-> ReadEnv(home), read |-> "home"]
    ELSE [ret |-> NoSecrets, read |-> "none"]

\* load_env with the cache as `cache` (reload_env passes None, line 289):
\* what it returns and caches, and the file it read
LoadEnv(cache, project, home) ==
    IF cache # None
    THEN [ret |-> cache, read |-> "cache"]                  \* lines 243-244
    ELSE LET chosen == ChosenEnvFile(project, home)
         IN  [ret |-> CASE chosen = "project" -> ReadEnv(project)
                        [] chosen = "home" -> ReadEnv(home)
                        [] OTHER -> NoSecrets,              \* lines 253-256
              read |-> chosen]

-----------------------------------------------------------------------------
(* save_env, lines 319-344: the text it writes *)

RECURSIVE Spaced(_)
Spaced(words) ==
    IF Len(words) <= 1 THEN words
    ELSE <<words[1], " ">> \o Spaced(Tail(words))

\* lines 326-328: three comment lines and an empty line
EnvHeader ==
    << Spaced(<<"#", "Spanish", "Tutor", "Environment", "Variables">>),
       Spaced(<<"#", "DO", "NOT", "SHARE", "THIS", "FILE", "-", "IT", "CONTAINS",
                "SENSITIVE", "API", "KEYS">>),
       Spaced(<<"#", "Auto-generated", "by", "Spanish", "Learning", "Assistant">>),
       <<>> >>

\* the names a secret may have here, in the order of sorted()
EnvKeyOrder == <<"OLLAMA_API_KEY", "OTHER_KEY">>

\* f"{key}={value}"
EnvLine(key, value) == <<key, "=">> \o (IF value = "" THEN <<>> ELSE <<value>>)

\* lines 326-331: the lines written for env_vars
EnvDump(env_vars) ==
    LET keys == SelectSeq(EnvKeyOrder, LAMBDA k : k \in DOMAIN env_vars)
    IN  EnvHeader \o [i \in 1..Len(keys) |-> EnvLine(keys[i], env_vars[keys[i]])]

-----------------------------------------------------------------------------
(* The inputs of the secrets store *)

\* the longest secrets file found on disk, in lines
MaxLines == 2

EnvLines ==
    { <<"OLLAMA_API_KEY", "=", "sk-test">>,
      <<" ", "OLLAMA_API_KEY", " ", "=", " ", "sk-other", "\t">>,
      <<"OLLAMA_API_KEY", "=">>,
      <<"OTHER_KEY", "=", "a", "=", "b">>,
      <<>>,
      <<"#", " ", "secrets">>,
      <<" ", "#", "OLLAMA_API_KEY", "=", "sk-old">>,
      <<"export", " ", "OLLAMA_API_KEY">> }

EnvTexts == {Text(lines) : lines \in UNION {[1..n -> EnvLines] : n \in 0..MaxLines}}

\* what may be found in ~/.spanish_tutor/.env.txt and in <cwd>/.env.txt
HomeEnvFiles == {Absent, Unreadable} \cup EnvTexts
ProjectEnvFiles ==
    {Absent, Unreadable, Text(<<>>), Text(<< <<"OLLAMA_API_KEY", "=", "sk-project">> >>)}

\* the home files tried next to a project-local file, which hides them
HomeEnvFilesBeside ==
    { Absent,
      Text(<< <<"OLLAMA_API_KEY", "=", "sk-test">> >>),
      Text(<< <<"OTHER_KEY", "=", "a", "=", "b">>,
              <<"OLLAMA_API_KEY", "=", "sk-test">> >>) }

\* dicts passed to save_env
EnvArgs ==
    { NoSecrets,
      [OLLAMA_API_KEY |-> "sk-new"],
      [OLLAMA_API_KEY |-> "sk-new", OTHER_KEY |-> "x"] }

-----------------------------------------------------------------------------
(* Calls of the secrets store *)

\* the frame of the secrets store left alone by its calls
EnvFrame ==
    UNCHANGED <<_config, config_file, temp_file, OLLAMA_AVAILABLE, request, result,
                session_state>>

\* a call begins: remember the cache and the two files it found, and the
\* call that completed before it
EnterEnv ==
    pre' = [env |-> _env, project |-> project_env_file, home |-> env_file,
            after |-> IF last.op = "save_env"
                      THEN [op |-> last.op, arg |-> last.arg, ret |-> last.ret]
                      ELSE [op |-> last.op]]

\* ConfigManager.load_env, lines 233-280
load_env ==
    /\ EnvFrame
    /\ pc = "idle"
    /\ EnterEnv
    /\ LET r == LoadEnv(_env, project_env_file, env_file)
       IN  /\ _env' = r.ret
           /\ last' = [op |-> "load_env", ret |-> r.ret, read |-> r.read]
    /\ UNCHANGED <<pc, frame, fvars, env_mode>>

\* ConfigManager.reload_env, lines 282-290
reload_env ==
    /\ EnvFrame
    /\ pc = "idle"
    /\ EnterEnv
    /\ LET r == LoadEnv(None, project_env_file, env_file)
       IN  /\ _env' = r.ret
           /\ last' = [op |-> "reload_env", ret |-> r.ret, read |-> r.read]
    /\ UNCHANGED <<pc, frame, fvars, env_mode>>

\* get_api_key(), lines 346-356: load_env, then .get('OLLAMA_API_KEY', '')
GetApiKey ==
    /\ EnvFrame
    /\ pc = "idle"
    /\ EnterEnv
    /\ LET r == LoadEnv(_env, project_env_file, env_file)
       IN  /\ _env' = r.ret
           /\ last' = [op |-> "get_api_key", ret |-> get_api_key(r.ret),
                        read |-> r.read]
    /\ UNCHANGED <<pc, frame, fvars, env_mode>>

\* save_env, lines 319-344: entry.  ensure_directories (line 322) changes no
\* file and its result is not looked at; the next step is the open of line 325
save_env ==
    /\ EnvFrame
    /\ pc = "idle"
    /\ EnterEnv
    /\ pc' = "env_open"
    /\ \E env_vars \in EnvArgs :
          frame' = [op |-> "save_env", arg |-> env_vars, file0 |-> env_file]
    /\ UNCHANGED <<_env, last, fvars, env_mode>>

\* the permission bits of a file that open(.., 'w') creates, under the usual
\* umask 022; an existing file keeps its bits
CreatedMode == "0644"

\* save_env returns ok (lines 340, 344); self._env is not touched
ReturnEnv(ok, failed_at) ==
    /\ pc' = "idle"
    /\ frame' = NoFrame
    /\ last' = [op |-> "save_env", arg |-> frame.arg, ret |-> ok,
                 failed_at |-> failed_at, file0 |-> frame.file0]

\* open(ENV_FILE, 'w'), line 325: the file itself is opened and emptied, or
\* the open fails (CONFIG_DIR is missing, the file is read-only)
EnvOpen ==
    /\ EnvFrame
    /\ pc = "env_open"
    /\ \/ /\ env_file' = Text(<<>>)
          /\ env_mode' = (IF Exists(env_file) THEN env_mode ELSE CreatedMode)
          /\ pc' = "env_write"
          /\ UNCHANGED <<frame, last>>
       \/ /\ ReturnEnv(FALSE, "open")
          /\ UNCHANGED <<env_file, env_mode>>
    /\ UNCHANGED <<_env, pre, project_env_file>>

\* the writes of lines 326-331 and the close of the file.  A write that
\* fails leaves the lines written before it.
EnvWrite ==
    /\ EnvFrame
    /\ pc = "env_write"
    /\ LET full == EnvDump(frame.arg)
       IN  \/ /\ env_file' = Text(full)
              /\ pc' = "env_chmod"
              /\ UNCHANGED <<frame, last>>
           \/ /\ \E n \in 0..(Len(full) - 1) : env_file' = Text(SubSeq(full, 1, n))
              /\ ReturnEnv(FALSE, "write")
    /\ UNCHANGED <<_env, pre, project_env_file, env_mode>>

\* os.chmod(ENV_FILE, 0o600), lines 334-337: an exception of chmod is
\* swallowed; then return True (line 340)
EnvChmod ==
    /\ EnvFrame
    /\ pc = "env_chmod"
    /\ \/ env_mode' = "0600"
       \/ UNCHANGED env_mode
    /\ ReturnEnv(TRUE, "none")
    /\ UNCHANGED <<_env, pre, fvars>>

\* the process is killed inside save_env and started again: the cache is
\* lost, the file holds the lines that had reached it
CrashEnv ==
    /\ EnvFrame
    /\ pc \in {"env_open", "env_write", "env_chmod"}
    /\ IF pc = "env_write"
       THEN LET full == EnvDump(frame.arg)
            IN  \E n \in 0..Len(full) : env_file' = Text(SubSeq(full, 1, n))
       ELSE UNCHANGED env_file
    /\ _env' = None
    /\ pc' = "idle"
    /\ frame' = NoFrame
    /\ last' = [op |-> "crash", at |-> pc, during |-> frame.op,
                 file0 |-> frame.file0]
    /\ UNCHANGED <<pre, project_env_file, env_mode>>

\* the user deletes one of the two secrets files between two calls
RemoveEnvFile ==
    /\ EnvFrame
    /\ pc = "idle"
    /\ \/ /\ Exists(env_file)
          /\ env_file' = Absent
          /\ env_mode' = "none"
          /\ UNCHANGED project_env_file
       \/ /\ Exists(project_env_file)
          /\ project_env_file' = Absent
          /\ UNCHANGED <<env_file, env_mode>>
    /\ last' = [op |-> "external_edit"]
    /\ UNCHANGED <<_env, pc, frame, pre>>

EnvNext ==
    \/ load_env
    \/ reload_env
    \/ GetApiKey
    \/ save_env
    \/ EnvOpen
    \/ EnvWrite
    \/ EnvChmod
    \/ CrashEnv
    \/ RemoveEnvFile

-----------------------------------------------------------------------------
(* ollama_manager.py: get_local_models and test_ollama_connection          *)
(*                                                                         *)
(* The answer of ollama.list() is a record with field kind:                *)
(*   "raised"         the call raised (text is str(e))                     *)
(*   "no_get"         an object without .get, such as a plain list         *)
(*   "null_models"    a mapping whose 'models' is None                     *)
(*   "no_models_key"  a mapping without 'models'                           *)
(*   "models"         a mapping whose 'models' is the list `models`        *)
(* An entry of that list is a dict or an object (py), with fields.         *)
(* The error of a status is None or Str(text).                             *)

Str(text) == [str |-> text]

\* the names of models and of model folders, in the order of sorted()
SortOrder ==
    <<"llama2", "llama2:7b", "llama2:latest", "mistral", "mistral:latest">>

\* a list of the names as they come, duplicates included
SortedSet_as_listed(names) == names

\* sorted(set(names)), lines 80, 101
SortedSet(names) ==
    SelectSeq(SortOrder, LAMBDA n : \E i \in 1..Len(names) : names[i] = n)

\* lines 72-75, 391-394: model.get('name', '') or getattr(model, 'name', '')
NameOfEntry(model) ==
    IF "name" \in DOMAIN model.fields THEN model.fields["name"] ELSE ""

\* lines 68-78, 387-397: the non-empty names, in the order of the list
model_names(models) ==
    SelectSeq([i \in 1..Len(models) |-> NameOfEntry(models[i])],
              LAMBDA n : n # "")

\* str(e) of the exception that lines 64-78 (382-397) raise on the answer,
\* None if they raise none
ListError(response) ==
    CASE response.kind = "raised" -> Str(response.text)
      [] response.kind = "no_get" -> Str("'list' object has no attribute 'get'")
      [] response.kind = "null_models" -> Str("'NoneType' object is not iterable")
      [] OTHER -> None

\* models_response.get('models', []), for an answer that has .get
ModelsOf(response) ==
    IF response.kind = "models" THEN response.models ELSE <<>>

\* a scan that takes every item of the directory for a model
ScanLibrary_with_files(library) ==
    IF library.kind = "dir"
    THEN SelectSeq(SortOrder \o <<"notes.txt">>,
                   LAMBDA n : \E item \in library.items : item.name = n)
    ELSE <<>>

\* lines 92-112: the names of the folders of the library directory
ScanLibrary(library) ==
    IF library.kind = "dir"                         \* windows_path.exists()
    THEN SortedSet(SelectSeq(SortOrder,             \* an empty list gives [] too
            LAMBDA n : \E item \in library.items : item.is_dir /\ item.name = n))
    ELSE <<>>              \* no such directory (line 108), or iterdir raises (112)

\* get_local_models, lines 42-112
get_local_models(available, response, library) ==
    IF ~available
    THEN [ret |-> <<>>, events |-> <<>>]                        \* lines 56-58
    ELSE IF ListError(response) = None
    THEN [ret |-> SortedSet(model_names(ModelsOf(response))),   \* lines 60-85
          events |-> <<"ollama.list">>]
    ELSE [ret |-> ScanLibrary(library),                         \* lines 87-112
          events |-> <<"ollama.list", "scan">>]

\* a test that counts the distinct names
test_ollama_connection_distinct(available, response) ==
    [ret |-> [connected |-> TRUE, library_available |-> available,
              models_found |-> Len(SortedSet(model_names(ModelsOf(response)))),
              models |-> model_names(ModelsOf(response)), error |-> None],
     events |-> <<"ollama.list">>]

\* test_ollama_connection, lines 355-408
test_ollama_connection(available, response) ==
    LET status == [connected |-> FALSE, library_available |-> available,
                   models_found |-> 0, models |-> <<>>, error |-> None]
    IN  IF ~available
        THEN [ret |-> [status EXCEPT !.error = Str("Ollama Python library not installed")],
              events |-> <<>>]                                  \* lines 375-378
        ELSE IF response.kind = "raised"
        THEN [ret |-> [status EXCEPT !.error = Str(response.text)],  \* lines 404-406
              events |-> <<"ollama.list">>]
        ELSE IF ListError(response) # None
        THEN \* connected is set (line 383) before the answer is read
             [ret |-> [status EXCEPT !.connected = TRUE,
                                     !.error = ListError(response)],
              events |-> <<"ollama.list">>]
        ELSE [ret |-> [status EXCEPT
                          !.connected = TRUE,
                          !.models = model_names(ModelsOf(response)),
                          !.models_found = Len(model_names(ModelsOf(response)))],
              events |-> <<"ollama.list">>]

-----------------------------------------------------------------------------
(* The inputs and the calls of the two functions *)

\* the most entries in a catalog
MaxModels == 3

\* an entry of the catalog: a dict or an object, with a name or with the
\* name under another field
ModelEntries ==
    { [py |-> "dict", fields |-> [name |-> "mistral:latest"]],
      [py |-> "object", fields |-> [name |-> "mistral:latest"]],
      [py |-> "dict", fields |-> [name |-> "llama2:latest"]],
      [py |-> "object", fields |-> [name |-> "llama2:7b"]],
      [py |-> "object", fields |-> [model |-> "llama2:latest"]] }

Catalogs == UNION { [1..n -> ModelEntries] : n \in 0..MaxModels }

\* what ollama.list() may give
ListResponses ==
    { [kind |-> "models", models |-> c] : c \in Catalogs }
    \cup { [kind |-> "no_models_key"], [kind |-> "null_models"], [kind |-> "no_get"],
           [kind |-> "raised", text |-> "[Errno 111] Connection refused"],
           [kind |-> "raised", text |-> "Request timed out"] }

\* what the library directory may be
Libraries ==
    { [kind |-> "missing"], [kind |-> "unreadable"] }
    \cup { [kind |-> "dir", items |-> items] :
             items \in SUBSET { [name |-> "llama2", is_dir |-> TRUE],
                                [name |-> "mistral", is_dir |-> TRUE],
                                [name |-> "notes.txt", is_dir |-> FALSE] } }

NotCalled == [kind |-> "not called"]
NotScanned == [kind |-> "not scanned"]

Called(events, name) == \E i \in 1..Len(events) : events[i] = name

\* one call of get_local_models()
GetLocalModels ==
    /\ \E response \in ListResponses :
        \E library \in IF ListError(response) = None THEN {NotScanned}
                       ELSE Libraries :
          LET r == get_local_models(OLLAMA_AVAILABLE, response, library)
          IN  /\ result' = [status |-> "returned", value |-> r.ret,
                            events |-> r.events]
              /\ request' = [op |-> "get_local_models",
                             response |-> IF Called(r.events, "ollama.list")
                                          THEN response ELSE NotCalled,
                             library |-> IF Called(r.events, "scan")
                                         THEN library ELSE NotScanned]
    /\ UNCHANGED <<OLLAMA_AVAILABLE, _env, cvars, fvars, env_mode, session_state>>

\* one call of test_ollama_connection()
TestOllamaConnection ==
    /\ \E response \in ListResponses :
          LET r == test_ollama_connection(OLLAMA_AVAILABLE, response)
          IN  /\ result' = [status |-> "returned", value |-> r.ret,
                            events |-> r.events]
              /\ request' = [op |-> "test_ollama_connection",
                             response |-> IF Called(r.events, "ollama.list")
                                          THEN response ELSE NotCalled]
    /\ UNCHANGED <<OLLAMA_AVAILABLE, _env, cvars, fvars, env_mode, session_state>>

ModelsNext ==
    \/ GetLocalModels
    \/ TestOllamaConnection
    \/ Restart

-----------------------------------------------------------------------------
(* spanish_tutor.py: SpanishTutor.  The tutor is session_state.tutor, a     *)
(* record with the field config.                                           *)

TutorOperations ==
    {"translate_to_spanish", "correct_spanish", "conversational_response"}

\* the prompt and the system prompt of an operation, lines 62-69, 103-110,
\* 145-157
TutorPrompt(op, text, is_spanish) ==
    CASE op = "translate_to_spanish" ->
           [prompt |-> <<"Translate to Spanish: ", text>>,
            system_prompt |-> "translate"]
      [] op = "correct_spanish" ->
           [prompt |-> <<"Review this Spanish text: ", text>>,
            system_prompt |-> "correct"]
      [] op = "conversational_response" /\ is_spanish ->
           [prompt |-> <<"The user said in Spanish: ", text,
                         "Respond naturally in Spanish and continue the conversation.">>,
            system_prompt |-> "converse in Spanish"]
      [] op = "conversational_response" /\ ~is_spanish ->
           [prompt |-> <<"The user said in English: ", text,
                         "Respond in Spanish and provide English translation.">>,
            system_prompt |-> "converse from English"]

\* lines 77, 118, 165: f"Error during ...: {str(e)}"
TutorError(op, e) ==
    [kind |-> "error",
     head |-> CASE op = "translate_to_spanish" -> "Error during translation: {e}"
                [] op = "correct_spanish" -> "Error during correction: {e}"
                [] op = "conversational_response" -> "Error during conversation: {e}",
     details |-> e]

\* translate_to_spanish, correct_spanish and conversational_response, lines
\* 42-167, of a tutor whose self.config is config.  router is the list of
\* the calls of call_llm made, each with its arguments and what it did.
tutor_operation(op, text, is_spanish, config, env_vars, available, answer) ==
    LET p == TutorPrompt(op, text, is_spanish)
        r == call_llm(p.prompt, p.system_prompt, config, env_vars, available, answer)
    IN  [status |-> "returned",
         value  |-> IF r.status = "raised"
                    THEN TutorError(op, r.exception)    \* except Exception as e
                    ELSE r.value,
         router |-> <<[prompt |-> p.prompt, system_prompt |-> p.system_prompt,
                       config |-> config, did |-> r]>>,
         events |-> r.events]

\* what the user may type
Texts == {"Hello", "Hola"}

\* the dicts a tutor may be given as config: the default model and endpoint,
\* each of the three keys that call_llm reads there or not
TutorConfigs ==
    { c \in RouterConfigs :
        /\ DictGet(c, "preferred_model", "llama2") = "llama2"
        /\ DictGet(c, "cloud_endpoint", "https://ollama.com") = "https://ollama.com" }

\* one call of an operation of the tutor
TutorCall ==
    /\ \E op \in TutorOperations, text \in Texts,
          disk \in IF _env = None THEN SecretsOnDisk ELSE {_env} :
        \E is_spanish \in IF op = "conversational_response" THEN BOOLEAN
                          ELSE {TRUE} :
        LET config   == session_state.tutor.config
            model    == DictGet(config, "preferred_model", "")
            cloud    == DictGet(config, "use_cloud", FALSE)
            endpoint == DictGet(config, "cloud_endpoint", "https://ollama.com")
            keyed    == "preferred_model" \in DOMAIN config /\ cloud
            env_vars == IF _env # None THEN _env ELSE disk
        IN  \E answer \in IF cloud THEN CloudAnswers(model, endpoint)
                                   ELSE LocalAnswers(model) :
              LET r == tutor_operation(op, text, is_spanish, config, env_vars,
                                       OLLAMA_AVAILABLE, answer)
              IN  /\ result' = r
                  /\ request' = [op |-> op, text |-> text,
                                 is_spanish |-> is_spanish, config |-> config,
                                 answer |-> IF Requests(r.events) # <<>>
                                            THEN answer ELSE NoAnswer]
                  /\ _env' = IF keyed THEN env_vars ELSE _env
    /\ UNCHANGED <<OLLAMA_AVAILABLE, cvars, fvars, env_mode, session_state>>

\* update_config, lines 169-180
update_config ==
    /\ \E config \in TutorConfigs \ {session_state.tutor.config} :
          session_state' = [session_state EXCEPT !.tutor.config = config]
    /\ UNCHANGED <<OLLAMA_AVAILABLE, _env, request, result, cvars, fvars, env_mode>>

TutorNext ==
    \/ TutorCall
    \/ update_config
    \/ Restart

-----------------------------------------------------------------------------
(* diagnose_files.py: test_create_config_json, lines 89-137.  The script    *)
(* is run on its own; its config_file is CONFIG_FILE of config_manager.py. *)

\* lines 100-104
test_config ==
    [version |-> "1.0.0", test |-> "This is a test config",
     created_by |-> "diagnose_files.py"]

\* what one run leaves in the file, and what it returns
test_create_config_json ==
    /\ UNCHANGED rvars
    /\ pc = "idle"
    /\ Enter
    /\ \E outcome \in {"open fails", "write fails", "read fails", "passes"} :
          /\ config_file' =
                CASE outcome = "open fails" -> config_file      \* line 107 raises
                  [] outcome = "write fails" -> Truncated       \* line 108 raises
                  [] outcome = "read fails" -> JsonDump(test_config)
                                                    \* lines 114-125 raise
                  [] outcome = "passes" -> Absent               \* line 125: unlink
          /\ last' = [op |-> "test_create_config_json", source |-> "diag",
                      outcome |-> outcome, file0 |-> config_file,
                      ret |-> (outcome = "passes")]
    /\ UNCHANGED <<_config, temp_file, pc, frame>>

\* the diagnostics, and the program and the user between two runs
DiagNext ==
    \/ test_create_config_json
    \/ load_config
    \/ reload_config
    \/ SaveOpen
    \/ SaveWrite
    \/ SaveReplace
    \/ Crash
    \/ ExternalEdit

-----------------------------------------------------------------------------
(* main.py: the session.  One action is one run of the script, from the    *)
(* click that starts it to the end of the run that st.rerun() starts.      *)
(* session_state has the fields page, mode (the radio of the sidebar),     *)
(* config and conversation_history; an entry of the history is its role    *)
(* and the number of the exchange it belongs to.                           *)

\* no page has been rendered yet
NoSession == [page |-> "none"]

Modes == {"Translation", "Correction", "Conversation Practice"}

\* the most exchanges in one conversation
MaxSent == 8

\* values of the number input of lines 578-585 (10 to 200 by steps of 10)
MaxHistoryChoices == {10, 20}

\* load_config, lines 57-69, merges whatever config.json holds
MaxHistoryFromFile == {0} \cup MaxHistoryChoices

\* seq[-n:]
PySuffix(seq, n) ==
    LET start == IF -n < 0
                 THEN (IF Len(seq) - n > 0 THEN Len(seq) - n ELSE 0)
                 ELSE (IF -n < Len(seq) THEN -n ELSE Len(seq))
    IN  SubSeq(seq, start + 1, Len(seq))

\* lines 729-731
Trim(history, max_history) ==
    IF Len(history) > max_history
    THEN PySuffix(history, max_history)
    ELSE history

\* render_conversation_mode, lines 724-771, without a click
render_conversation_mode(ss) ==
    [ss EXCEPT !.conversation_history =
                  Trim(@, ss.config.max_conversation_history)]

\* render_main_app, lines 811-867: the other modes leave the history alone
render_main_app(ss) ==
    IF ss.mode = "Conversation Practice" THEN render_conversation_mode(ss) ELSE ss

\* main, lines 870-888: render_options_page leaves the history alone
main(ss) ==
    IF ss.page = "options" THEN ss ELSE render_main_app(ss)

\* process_conversation_input, lines 774-808, up to st.rerun()
process_conversation_input(ss, n) ==
    [ss EXCEPT !.conversation_history =
                  @ \o <<[role |-> "user", content |-> n],
                         [role |-> "assistant", content |-> n]>>]

\* the number of the next exchange of the conversation
NextText(history) ==
    IF history = <<>> THEN 1 ELSE history[Len(history)].content + 1

\* the options page renders: the number input of line 578 raises for a
\* value outside its range, and the buttons below it are not drawn
OptionsRender ==
    /\ session_state.page = "options"
    /\ session_state.config.max_conversation_history \in 10..200

ChatFrame ==
    UNCHANGED <<cvars, OLLAMA_AVAILABLE, _env, request, result, fvars, env_mode>>

\* Send (lines 749-751): the run trims, appends the two entries and reruns
Send ==
    /\ ChatFrame
    /\ session_state.page = "main"
    /\ session_state.mode = "Conversation Practice"
    /\ NextText(session_state.conversation_history) <= MaxSent
    /\ session_state' =
          main(process_conversation_input(
                   render_conversation_mode(session_state),
                   NextText(session_state.conversation_history)))

\* Clear Conversation, lines 769-771
ClearConversation ==
    /\ ChatFrame
    /\ session_state.page = "main"
    /\ session_state.mode = "Conversation Practice"
    /\ session_state.conversation_history # <<>>
    /\ session_state' = main([session_state EXCEPT !.conversation_history = <<>>])

\* the radio of the sidebar, lines 829-833
ChooseMode ==
    /\ ChatFrame
    /\ session_state.page = "main"
    /\ \E mode \in Modes \ {session_state.mode} :
          session_state' = main([session_state EXCEPT !.mode = mode])

\* Options, lines 822-824
OpenOptions ==
    /\ ChatFrame
    /\ session_state.page = "main"
    /\ session_state' = main([session_state EXCEPT !.page = "options"])

\* the number input of lines 578-585 assigns to the config of the session
SetMaxHistory ==
    /\ ChatFrame
    /\ OptionsRender
    /\ \E v \in MaxHistoryChoices \ {session_state.config.max_conversation_history} :
          session_state' =
              main([session_state EXCEPT !.config.max_conversation_history = v])

\* Back to App, lines 619-622; the radio, not drawn on the options page,
\* may have kept its value or be back on its first option
BackToApp ==
    /\ ChatFrame
    /\ OptionsRender
    /\ \E mode \in {session_state.mode, "Translation"} :
          session_state' =
              main([session_state EXCEPT !.page = "main", !.mode = mode])

ChatNext ==
    \/ Send
    \/ ClearConversation
    \/ ChooseMode
    \/ OpenOptions
    \/ SetMaxHistory
    \/ BackToApp

-----------------------------------------------------------------------------
(* The specifications.  Spec is the configuration store, SpecRouter the     *)
(* router, SpecEnv the secrets store, SpecModels the listing of the local  *)
(* models, SpecDiag the file diagnostics next to the configuration store,  *)
(* SpecChat the session, SpecTutor the tutor; each with the others at rest. *)

Init ==
    /\ _config = None
    /\ config_file \in ExternalFiles
    /\ temp_file = Absent
    /\ pc = "idle"
    /\ frame = NoFrame
    /\ pre = [cache |-> None, file |-> config_file, after |-> [op |-> "init"]]
    /\ last = [op |-> "init"]
    /\ OLLAMA_AVAILABLE = TRUE
    /\ _env = None
    /\ request = NoRequest
    /\ result = NoResult
    /\ env_file = Absent
    /\ project_env_file = Absent
    /\ env_mode = "none"
    /\ session_state = NoSession

Next == ConfigNext

Spec == Init /\ [][Next]_vars

InitRouter ==
    /\ _config = None
    /\ config_file = Absent
    /\ temp_file = Absent
    /\ pc = "idle"
    /\ frame = NoFrame
    /\ pre = [cache |-> None, file |-> Absent, after |-> [op |-> "init"]]
    /\ last = [op |-> "init"]
    /\ OLLAMA_AVAILABLE \in BOOLEAN
    /\ _env = None
    /\ request = NoRequest
    /\ result = NoResult
    /\ env_file = Absent
    /\ project_env_file = Absent
    /\ env_mode = "none"
    /\ session_state = NoSession

SpecRouter == InitRouter /\ [][RouterNext]_vars

InitEnv ==
    /\ _config = None
    /\ config_file = Absent
    /\ temp_file = Absent
    /\ pc = "idle"
    /\ frame = NoFrame
    /\ project_env_file \in ProjectEnvFiles
    /\ env_file \in (IF Exists(project_env_file) THEN HomeEnvFilesBeside
                     ELSE HomeEnvFiles)
    /\ env_mode \in (IF Exists(env_file) THEN {"0600", "0644"} ELSE {"none"})
    /\ session_state = NoSession
    /\ pre = [env |-> None, project |-> project_env_file, home |-> env_file,
               after |-> [op |-> "init"]]
    /\ last = [op |-> "init"]
    /\ OLLAMA_AVAILABLE = TRUE
    /\ _env = None
    /\ request = NoRequest
    /\ result = NoResult

SpecEnv == InitEnv /\ [][EnvNext]_vars

SpecModels == InitRouter /\ [][ModelsNext]_vars

SpecDiag == Init /\ [][DiagNext]_vars

\* initialize_session_state, lines 302-323, and the first run of main
InitChat ==
    /\ _config = None
    /\ config_file = Absent
    /\ temp_file = Absent
    /\ pc = "idle"
    /\ frame = NoFrame
    /\ pre = [cache |-> None, file |-> Absent, after |-> [op |-> "init"]]
    /\ last = [op |-> "init"]
    /\ OLLAMA_AVAILABLE = TRUE
    /\ _env = None
    /\ request = NoRequest
    /\ result = NoResult
    /\ env_file = Absent
    /\ project_env_file = Absent
    /\ env_mode = "none"
    /\ session_state \in
          { [page |-> "main", mode |-> "Translation",
             config |-> [max_conversation_history |-> v],
             conversation_history |-> <<>>] : v \in MaxHistoryFromFile }

SpecChat == InitChat /\ [][ChatNext]_vars

\* SpanishTutor(config), lines 27-40
InitTutor ==
    /\ _config = None
    /\ config_file = Absent
    /\ temp_file = Absent
    /\ pc = "idle"
    /\ frame = NoFrame
    /\ pre = [cache |-> None, file |-> Absent, after |-> [op |-> "init"]]
    /\ last = [op |-> "init"]
    /\ OLLAMA_AVAILABLE \in BOOLEAN
    /\ _env = None
    /\ request = NoRequest
    /\ result = NoResult
    /\ env_file = Absent
    /\ project_env_file = Absent
    /\ env_mode = "none"
    /\ session_state \in { [page |-> "none", tutor |-> [config |-> config]] :
                              config \in TutorConfigs }

SpecTutor == InitTutor /\ [][TutorNext]_vars

-----------------------------------------------------------------------------
(* Properties of the configuration store *)

DefaultKeys == DOMAIN DEFAULT_CONFIG

\* a load that found the cache empty and read config.json
LoadedFromFile ==
    /\ last.op \in {"load_config", "reload_config"}
    /\ last.source = "file"

\* C7: load_config with an empty cache, on a config.json that holds a JSON
\* object, returns a dict with every default key and every persisted key;
\* a persisted key has its persisted value, a default key that the file
\* lacks has its default value.
C7_LoadMergesDefaults ==
    (LoadedFromFile /\ pre.file.kind = "object") =>
        LET m == pre.file.members
            r == last.ret
        IN  /\ DOMAIN r = DefaultKeys \cup DOMAIN m
            /\ \A k \in DOMAIN m : r[k] = m[k]
            /\ \A k \in DefaultKeys \ DOMAIN m : r[k] = DEFAULT_CONFIG[k]

\* C7 witness: a file of an earlier version was loaded; it overrides the
\* defaults of version and theme, has an unknown key and lacks use_cloud
C7_Witness ==
    /\ LoadedFromFile
    /\ last.op = "load_config"
    /\ pre.cache = None
    /\ pre.file = OldVersionFile
    /\ last.ret.theme = "dark"
    /\ last.ret.legacy_key = "kept"
    /\ last.ret.use_cloud = FALSE

\* C8 as claimed: whatever calls came before, the dict that load_config
\* returns has every key of DEFAULT_CONFIG.
C8_LoadHasDefaultKeys ==
    last.op = "load_config" => DefaultKeys \subseteq DOMAIN last.ret

\* a configuration in the sense of the data model: every setting of the
\* default set is there, and every value is a scalar
WellFormed(cfg) ==
    /\ DefaultKeys \subseteq DOMAIN cfg
    /\ (DOMAIN cfg) \cap ContainerKeys = {}

\* a load that directly follows a save_config(cfg) that returned True, for
\* a well-formed cfg
LoadAfterSave ==
    /\ last.op \in {"load_config", "reload_config"}
    /\ pre.after.op = "save_config"
    /\ pre.after.ret = TRUE
    /\ WellFormed(pre.after.arg)

\* C9: after save_config(cfg) returned True for a well-formed cfg, both
\* load_config (from the cache) and reload_config (from config.json) return
\* a dict equal to cfg.
C9_SaveLoadRoundTrip ==
    LoadAfterSave => last.ret = pre.after.arg

\* C9 witness: reload_config read back, from the file, a saved configuration
\* that differs from the defaults and has a key unknown to them
C9_Witness ==
    /\ LoadAfterSave
    /\ last.op = "reload_config"
    /\ last.source = "file"
    /\ last.ret = WithUnknown

\* C10: (a) at every point of a save before the rename, config.json has the
\* content it had when the save began, and the rename is reached only with
\* the complete new content in the temporary file; (b) a save that failed
\* left config.json as it was and removed the temporary file; (c) a save
\* interrupted before the rename left config.json as it was.
C10_AtomicSave ==
    /\ pc \in {"save_open", "save_write", "save_replace"} =>
            config_file = frame.file0
    /\ pc = "save_replace" => temp_file = JsonDump(frame.arg)
    /\ (last.op \notin {"init", "external_edit", "crash"}
            /\ last.source = "save" /\ ~last.saved /\ pc = "idle") =>
            (config_file = last.file0 /\ temp_file = Absent)
    /\ (last.op = "crash" /\ pc = "idle") => config_file = last.file0

\* C10 witness: a save over an existing config.json failed while the dump was
\* being written (here on a value JSON cannot express)
C10_Witness ==
    /\ last.op = "save_config"
    /\ last.failed_at = "write"
    /\ last.arg = WithSet
    /\ last.file0 = OldVersionFile
    /\ config_file = OldVersionFile
    /\ temp_file = Absent

\* a call of save_config has returned and nothing happened since
SaveReturned ==
    /\ pc = "idle"
    /\ last.op = "save_config"

\* C11: a call of save_config that is not interrupted returns True or False
\* and raises nothing.  It returns True exactly when the rename took place,
\* and then config.json holds the dump of the given configuration; when it
\* returns False (CONFIG_DIR could not be made, the open, the dump or the
\* rename failed) config.json is as it was and the cache is the one the
\* manager held when the call began.
C11_SaveReturnsOutcome ==
    /\ pc \in {"save_open", "save_write", "save_replace"} =>
            ENABLED (SaveOpen \/ SaveWrite \/ SaveReplace)
    /\ SaveReturned =>
          /\ last.ret \in BOOLEAN
          /\ last.ret = TRUE <=> last.failed_at = "none"
          /\ last.ret = TRUE => config_file = JsonDump(last.arg)
          /\ last.ret = FALSE => (config_file = last.file0 /\ _config = pre.cache)
          /\ last.dirs = "no_config_dir" => last.ret = FALSE
          /\ ~Serializable(last.arg) => last.ret = FALSE

\* C11 witness: with a configuration cached, a save of another one failed at
\* the rename and returned False
C11_Witness ==
    /\ SaveReturned
    /\ last.ret = FALSE
    /\ last.failed_at = "replace"
    /\ pre.cache = FullDark
    /\ last.arg = WithUnknown
    /\ _config = FullDark

\* C12: load_config with an empty cache, on a config.json that exists and
\* is not JSON, returns a dict equal to DEFAULT_CONFIG, caches it, and
\* leaves config.json as it was.
C12_CorruptFileGivesDefaults ==
    (pc = "idle" /\ LoadedFromFile /\ pre.file.kind = "invalid") =>
        /\ last.ret = DEFAULT_CONFIG
        /\ _config = DEFAULT_CONFIG
        /\ config_file = pre.file

\* C12 witness: a load with an empty cache found a config.json that is not
\* JSON
C12_Witness ==
    /\ pc = "idle"
    /\ last.op = "load_config"
    /\ last.source = "file"
    /\ pre.cache = None
    /\ pre.file = [kind |-> "invalid"]
    /\ config_file = [kind |-> "invalid"]
    /\ last.ret = DEFAULT_CONFIG

\* what load_config gives for an empty cache and config.json holding `file`
FreshLoad(file) ==
    IF file.kind = "object" THEN Merge(DEFAULT_CONFIG, file.members)
    ELSE DEFAULT_CONFIG

\* C13: load_config called with a configuration in the cache returns that
\* configuration and reads no file, whatever config.json holds by then;
\* reload_config returns, and caches, what a load with an empty cache gives
\* for the file as it is, whatever the cache held.
C13_CachedUntilReload ==
    /\ (pc = "idle" /\ last.op = "load_config" /\ pre.cache # None) =>
          /\ last.source = "cache"
          /\ last.ret = pre.cache
          /\ _config = pre.cache
    /\ (pc = "idle" /\ last.op = "reload_config") =>
          /\ last.source # "cache"
          /\ last.ret = FreshLoad(pre.file)
          /\ _config = last.ret

\* C13 witness: config.json was changed on disk after a save, and the next
\* load_config returned the saved configuration from the cache
C13_Witness ==
    /\ pc = "idle"
    /\ last.op = "load_config"
    /\ last.source = "cache"
    /\ pre.after.op = "external_edit"
    /\ last.ret = FullDark
    /\ config_file = OldVersionFile

\* C14 as claimed: once reset_config has returned, it has returned a dict
\* equal to DEFAULT_CONFIG, config.json holds the defaults, and so does the
\* dict that the next load_config returns.
C14_ResetPersistsDefaults ==
    /\ (pc = "idle" /\ last.op = "reset_config") =>
          /\ last.ret = DEFAULT_CONFIG
          /\ config_file = JsonDump(DEFAULT_CONFIG)
    /\ (pc = "idle" /\ last.op = "load_config" /\ pre.after.op = "reset_config") =>
          last.ret = DEFAULT_CONFIG

\* C15: load_config with an empty cache and no config.json (and so
\* reload_config with no config.json) returns a dict equal to DEFAULT_CONFIG
\* after a save of the defaults; if the save succeeded config.json holds the
\* defaults, if it failed the call returned the defaults all the same.
C15_Bootstrap ==
    (/\ pc = "idle"
     /\ \/ last.op = "load_config" /\ pre.cache = None
        \/ last.op = "reload_config"
     /\ ~Exists(pre.file)) =>
        /\ last.source = "save"
        /\ last.arg = DEFAULT_CONFIG
        /\ last.ret = DEFAULT_CONFIG
        /\ last.saved => config_file = JsonDump(DEFAULT_CONFIG)
        /\ ~last.saved => last.failed_at \in {"open", "write", "replace"}

\* C15 witness: the first load of a fresh installation wrote the defaults
C15_Witness ==
    /\ pc = "idle"
    /\ last.op = "load_config"
    /\ pre.cache = None
    /\ pre.file = Absent
    /\ last.saved
    /\ last.ret = DEFAULT_CONFIG
    /\ config_file = JsonDump(DEFAULT_CONFIG)

\* C16 as claimed: a configuration in the cache is replaced by another one
\* only in a call of save_config, set, reset_config or reload_config; what
\* a caller does to a dict it got from load_config changes no later result.
C16_CacheChangesOnlyBySave ==
    [][(_config # None /\ _config' # None /\ _config' # _config) =>
          \/ frame.op \in {"save_config", "set", "set_load", "reset_config"}
          \/ frame'.op \in {"set", "set_load", "reload_config"}
          \/ last'.op = "reload_config"]_vars

\* C27 as claimed: after a set(key, value) that returned False, called with
\* a configuration cached, the cache equals the one from before the call and
\* get gives for every key what it gave before.
C27_FailedSetChangesNothing ==
    (pc = "idle" /\ last.op = "set" /\ last.ret = FALSE /\ pre.cache # None) =>
        /\ _config = pre.cache
        /\ \A kv \in SetArgs :
              DictGet(_config, kv[1], None) = DictGet(pre.cache, kv[1], None)

-----------------------------------------------------------------------------
(* Properties of the router *)

\* the category of section 4.3 that a returned string belongs to, read off
\* its first line
Category(value) ==
    IF value.kind = "reply" THEN "Success"
    ELSE CASE value.head = "Error: No API key found." -> "MissingCredential"
           [] value.head = "Error: Invalid API key." -> "InvalidCredential"
           [] value.head = "Error: Model '{model}' not found on Ollama cloud."
                -> "UnknownModel"
           [] value.head = "Error: Cannot connect to {endpoint}" -> "ServiceUnavailable"
           [] value.head = "Error: Cannot connect to Ollama service."
                -> "ServiceUnavailable"
           [] value.head = "Error calling Ollama cloud:" -> "Unknown"
           [] value.head = "Error calling local LLM: {e}" -> "Unknown"
           [] OTHER -> "none"

\* call_llm was called with a config that names a model
Routed ==
    /\ request.op = "call_llm"
    /\ "preferred_model" \in DOMAIN request.config

UseCloud == DictGet(request.config, "use_cloud", FALSE)

EventsOf(kinds) == SelectSeq(result.events, LAMBDA e : e.ev \in kinds)

\* the request to the cloud, respectively to the local service, was made
\* and failed
CloudFailed ==
    /\ Routed
    /\ EventsOf({"client.chat"}) # <<>>
    /\ ~request.answer.ok

LocalFailed ==
    /\ Routed
    /\ EventsOf({"ollama.chat"}) # <<>>
    /\ ~request.answer.ok

\* C1: with use_cloud true and an empty or absent stored API key, call_llm
\* returns the 'No API key found' message, creates no client and makes no
\* request, whatever the prompt, the model and the endpoint.
C1_NoKeyNoCall ==
    (Routed /\ UseCloud /\ get_api_key(_env) = "") =>
        /\ result.status = "returned"
        /\ result.value = NoApiKey
        /\ Category(result.value) = "MissingCredential"
        /\ EventsOf({"Client", "client.chat", "ollama.chat"}) = <<>>

\* C1 witness: a cloud call to a non-default endpoint, the library installed,
\* the secrets file defining an empty key
C1_Witness ==
    /\ Routed
    /\ UseCloud
    /\ OLLAMA_AVAILABLE
    /\ _env = [OLLAMA_API_KEY |-> ""]
    /\ DictGet(request.config, "cloud_endpoint", "") = "http://localhost:4010"
    /\ result.value = NoApiKey

\* C2: call_llm invokes exactly one backend: call_cloud_llm when use_cloud is
\* true, call_local_llm when it is false or absent, each with the config's
\* preferred_model as the model.
C2_DispatchOnFlag ==
    Routed =>
        LET backends == EventsOf({"call_cloud_llm", "call_local_llm"})
            cloud == "use_cloud" \in DOMAIN request.config
                        /\ request.config["use_cloud"] = TRUE
        IN  /\ Len(backends) = 1
            /\ backends[1].ev = IF cloud THEN "call_cloud_llm" ELSE "call_local_llm"
            /\ backends[1].model = request.config["preferred_model"]

\* C2 witness: a config without use_cloud went to the local backend
C2_Witness ==
    /\ Routed
    /\ "use_cloud" \notin DOMAIN request.config
    /\ result.events[1] = [ev |-> "call_local_llm", model |-> "llama2"]
    /\ Len(result.events) = 2

\* the category that section 4.3 gives to each kind of cloud failure
ExpectedCategory(failure) ==
    CASE failure = "unauthorized" -> "InvalidCredential"
      [] failure = "not_found" -> "UnknownModel"
      [] failure \in {"connection", "dns"} -> "ServiceUnavailable"
      [] OTHER -> "Unknown"

\* C3 as claimed: a failed cloud call returns the message of the category of
\* the kind of failure, whatever else the error text holds.
C3_ClassifiedByKind ==
    CloudFailed => Category(result.value) = ExpectedCategory(request.answer.failure)

\* C4: a cloud call that fails with a not-found response returns the
\* UnknownModel message, which lists exactly the names of the cloud catalog.
C4_UnknownModelListsCatalog ==
    (CloudFailed /\ request.answer.failure = "not_found") =>
        /\ Category(result.value) = "UnknownModel"
        /\ {result.value.listed[i] : i \in 1..Len(result.value.listed)}
               = get_cloud_models
        /\ Len(result.value.listed) = Cardinality(get_cloud_models)

\* C4 witness: a 404 for a model the cloud does not have
C4_Witness ==
    /\ CloudFailed
    /\ request.answer.failure = "not_found"
    /\ request.config["preferred_model"] = "llama2"
    /\ result.value.model = "llama2"
    /\ Category(result.value) = "UnknownModel"

\* C5: a local call that fails because the connection is refused returns the
\* ServiceUnavailable message, which says how to start the local service;
\* any other failure of the local call returns the Unknown message, with the
\* raw error text and the three troubleshooting steps.
C5_LocalFailures ==
    LocalFailed =>
        LET v == result.value
        IN  IF request.answer.failure = "connection"
            THEN /\ Category(v) = "ServiceUnavailable"
                 /\ \E i \in 1..Len(v.advice) :
                        v.advice[i] \in {"- If not running: Start Ollama from Start Menu",
                                         "- Or run in terminal: ollama serve"}
            ELSE /\ Category(v) = "Unknown"
                 /\ v.details = request.answer.text
                 /\ Len(v.advice) = 3
                 /\ v.advice[1] = "1. Ensure Ollama is running"

\* C5 witness: the local service refused the connection
C5_Witness ==
    /\ LocalFailed
    /\ ~UseCloud
    /\ request.answer.failure = "connection"
    /\ Category(result.value) = "ServiceUnavailable"
    /\ result.value.details = <<"[Errno 111] Connection refused">>

\* C6 as claimed: call_llm returns a string, and raises nothing, for every
\* dict passed as config.
C6_NeverRaises ==
    request.op = "call_llm" => result.status = "returned"

-----------------------------------------------------------------------------
(* Properties of the file diagnostics *)

\* C29 as claimed: a config.json that exists before test_create_config_json
\* runs exists with the same content after the run, passed or failed.
C29_DiagnosticsKeepSettings ==
    (pc = "idle" /\ last.op = "test_create_config_json" /\ Exists(last.file0)) =>
        config_file = last.file0

-----------------------------------------------------------------------------
(* Properties of the conversation history *)

\* the entries are consecutive, oldest first, and end with the last answer
RecentInOrder(h) ==
    /\ \A i \in 1..(Len(h) - 1) :
          IF h[i].role = "user"
          THEN h[i + 1] = [role |-> "assistant", content |-> h[i].content]
          ELSE h[i + 1] = [role |-> "user", content |-> h[i].content + 1]
    /\ h # <<>> => h[Len(h)].role = "assistant"

\* C30 as claimed: after any sequence of messages and page renders the
\* history of the session has at most max_conversation_history entries,
\* the most recent ones in their order.
C30_HistoryBounded ==
    /\ Len(session_state.conversation_history)
           <= session_state.config.max_conversation_history
    /\ RecentInOrder(session_state.conversation_history)

-----------------------------------------------------------------------------
(* Properties of the tutor *)

TutorCalled == request.op \in TutorOperations

\* C25 as claimed: each operation of the tutor calls the router exactly once,
\* with the tutor's configuration, which makes at most one chat request; it
\* raises nothing and returns the string the router returned, unchanged.
C25_ThinCall ==
    TutorCalled =>
        /\ result.status = "returned"
        /\ Len(result.router) = 1
        /\ result.router[1].config = request.config
        /\ Len(Requests(result.events)) <= 1
        /\ result.router[1].did.status = "returned"
        /\ result.value = result.router[1].did.value

-----------------------------------------------------------------------------
(* Properties of the secrets store *)

\* the secrets file of the two that counts: the project-local one if it
\* exists, else the one in the user-home configuration directory
SecretsFile(project, home) == IF Exists(project) THEN project ELSE home

\* the line is not blank, is no comment and holds a '='
IsEntry(raw) ==
    LET line == Strip(raw)
    IN  /\ line # <<>>
        /\ line[1] # "#"
        /\ \E i \in 1..Len(line) : line[i] = "="

\* the text before, and after, the first '=' of an entry line, stripped
KeyOf(raw) ==
    LET line == Strip(raw)
    IN  Join(Strip(SubSeq(line, 1, FirstEquals(line) - 1)))
ValueOf(raw) ==
    LET line == Strip(raw)
    IN  Join(Strip(SubSeq(line, FirstEquals(line) + 1, Len(line))))

\* one entry per distinct key of the entry lines, with the value of the
\* last line of that key
Entries(lines) ==
    LET entry == {i \in 1..Len(lines) : IsEntry(lines[i])}
        LastOf(k) == CHOOSE i \in entry :
                        /\ KeyOf(lines[i]) = k
                        /\ \A j \in entry : KeyOf(lines[j]) = k => j <= i
    IN  [k \in {KeyOf(lines[i]) : i \in entry} |-> ValueOf(lines[LastOf(k)])]

\* the file defines OLLAMA_API_KEY
DefinesApiKey(file) ==
    /\ file.kind = "text"
    /\ "OLLAMA_API_KEY" \in DOMAIN Entries(file.lines)

\* get_api_key has returned, and when it was called neither file existed,
\* or the secrets file was empty, unreadable or without OLLAMA_API_KEY
NoKeyOnDisk ==
    /\ pc = "idle"
    /\ last.op = "get_api_key"
    /\ ~DefinesApiKey(SecretsFile(pre.project, pre.home))

\* load_env has returned after reading the files, not the cache
EnvLoadedFromDisk ==
    /\ pc = "idle"
    /\ \/ last.op = "load_env" /\ pre.env = None
       \/ last.op = "reload_env"

\* C17 as claimed: get_api_key returns the empty string whenever no secrets
\* file exists, or the secrets file is empty, unreadable or does not define
\* OLLAMA_API_KEY.
C17_NoKeyGivesEmpty ==
    NoKeyOnDisk => last.ret = ""

\* C17, amended: get_api_key called with no secrets cached returns the empty
\* string in these cases; with secrets cached it returns the cached value of
\* OLLAMA_API_KEY, or the empty string if there is none.
C17_NoKeyGivesEmptyUncached ==
    /\ (NoKeyOnDisk /\ pre.env = None) => last.ret = ""
    /\ (pc = "idle" /\ last.op = "get_api_key" /\ pre.env # None) =>
            last.ret = DictGet(pre.env, "OLLAMA_API_KEY", "")

\* C17 witness: with nothing cached, an unreadable project-local file hid a
\* home file that defines the key, and get_api_key returned ""
C17_Witness ==
    /\ NoKeyOnDisk
    /\ pre.env = None
    /\ pre.project = Unreadable
    /\ pre.home = Text(<< <<"OLLAMA_API_KEY", "=", "sk-test">> >>)
    /\ last.ret = ""
    /\ _env = NoSecrets

\* C18: load_env with an empty cache, when the project-local file exists,
\* reads that file and returns exactly its entries, whatever the home file
\* holds; it reads the home file only when the project-local one does not
\* exist.
C18_ProjectFileFirst ==
    EnvLoadedFromDisk =>
        /\ Exists(pre.project) =>
              /\ last.read = "project"
              /\ last.ret = (IF pre.project.kind = "text"
                              THEN Entries(pre.project.lines) ELSE NoSecrets)
        /\ last.read = "home" => (~Exists(pre.project) /\ Exists(pre.home))

\* C18 witness: both files exist and define different keys
C18_Witness ==
    /\ EnvLoadedFromDisk
    /\ last.op = "load_env"
    /\ pre.project = Text(<< <<"OLLAMA_API_KEY", "=", "sk-project">> >>)
    /\ pre.home = Text(<< <<"OTHER_KEY", "=", "a", "=", "b">>,
                          <<"OLLAMA_API_KEY", "=", "sk-test">> >>)
    /\ last.ret = [OLLAMA_API_KEY |-> "sk-project"]

\* C19: load_env with an empty cache returns, for the lines of the file it
\* reads, one entry per distinct key of the lines that are not blank, are no
\* comment and hold a '=' (a line counts as it is without its surrounding
\* whitespace): key and value are the stripped texts before and after the
\* first '=', the last line of a key gives its value; nothing else is in
\* the result.
C19_ParsesKeyValueLines ==
    (EnvLoadedFromDisk /\ last.read \in {"project", "home"}) =>
        LET file == SecretsFile(pre.project, pre.home)
        IN  file.kind = "text" => last.ret = Entries(file.lines)

\* C19 witness: two lines for the same key, the first with whitespace
\* around key and value
C19_Witness ==
    /\ EnvLoadedFromDisk
    /\ last.read = "home"
    /\ pre.home = Text(<< <<" ", "OLLAMA_API_KEY", " ", "=", " ", "sk-other", "\t">>,
                          <<"OLLAMA_API_KEY", "=", "sk-test">> >>)
    /\ last.ret = [OLLAMA_API_KEY |-> "sk-test"]

\* C20 as claimed: a save_env over an existing home secrets file that
\* returned False, or that was interrupted, left the file with the content
\* it had when the save began.
C20_SaveEnvKeepsOldFile ==
    /\ (pc = "idle" /\ last.op = "save_env" /\ last.ret = FALSE
            /\ Exists(last.file0)) => env_file = last.file0
    /\ (pc = "idle" /\ last.op = "crash" /\ last.during = "save_env"
            /\ Exists(last.file0)) => env_file = last.file0

\* the home secrets file holds key lines written by save_env: the header of
\* save_env and at least one line after it
HoldsSavedKeys ==
    /\ env_file.kind = "text"
    /\ Len(env_file.lines) > Len(EnvHeader)
    /\ SubSeq(env_file.lines, 1, Len(EnvHeader)) = EnvHeader

\* C21 as claimed: whenever the home secrets file holds key values written
\* by save_env its mode is 0600, and save_env returns True only with the
\* file in that mode.
C21_SecretsOwnerOnly ==
    /\ HoldsSavedKeys => env_mode = "0600"
    /\ (pc = "idle" /\ last.op = "save_env" /\ last.ret = TRUE) => env_mode = "0600"

\* C26 as claimed: the get_api_key that follows a save_env(m) that returned
\* True returns the OLLAMA_API_KEY of m, or "" if m has none, whatever was
\* cached before and whether or not a project-local file exists.
C26_SavedKeyIsUsed ==
    (/\ pc = "idle"
     /\ last.op = "get_api_key"
     /\ pre.after.op = "save_env"
     /\ pre.after.ret = TRUE) =>
        last.ret = DictGet(pre.after.arg, "OLLAMA_API_KEY", "")

-----------------------------------------------------------------------------
(* Properties of the listing of the local models *)

Range(seq) == { seq[i] : i \in 1..Len(seq) }

\* the place of a name in the order of sorted(), 0 for a name without one
Rank(n) ==
    IF \E k \in 1..Len(SortOrder) : SortOrder[k] = n
    THEN CHOOSE k \in 1..Len(SortOrder) : SortOrder[k] = n
    ELSE 0

\* strictly ascending, hence without duplicates
Ascending(seq) ==
    \A i, j \in 1..Len(seq) : i < j => Rank(seq[i]) < Rank(seq[j])

ListSucceeded ==
    /\ request.op = "get_local_models"
    /\ request.response.kind \in {"models", "no_models_key"}

ListFailed ==
    /\ request.op = "get_local_models"
    /\ request.response.kind \in {"raised", "no_get", "null_models"}

\* the non-empty names of the catalog of the answer
CatalogNames ==
    IF request.response.kind = "models"
    THEN { IF "name" \in DOMAIN m.fields THEN m.fields["name"] ELSE "" :
             m \in Range(request.response.models) } \ {""}
    ELSE {}

\* C22: when the query to the local service succeeds, get_local_models
\* returns the non-empty names of the catalog, each once, in ascending
\* order, and nothing else.
C22_SortedDistinctNames ==
    ListSucceeded =>
        /\ result.status = "returned"
        /\ Range(result.value) = CatalogNames
        /\ Ascending(result.value)
        /\ result.events = <<"ollama.list">>

\* a catalog of three entries, the first two out of order and the third a
\* duplicate of the first, answered by two names
C22_Witness ==
    /\ ListSucceeded
    /\ request.response.kind = "models"
    /\ Len(request.response.models) = 3
    /\ LET m == request.response.models
       IN  /\ \A i \in 1..3 : "name" \in DOMAIN m[i].fields
           /\ Rank(m[1].fields["name"]) > Rank(m[2].fields["name"])
           /\ Rank(m[2].fields["name"]) > 0
           /\ m[3].fields["name"] = m[1].fields["name"]
           /\ m[3].py # m[1].py
    /\ Len(result.value) = 2

\* the names of the folders of the library directory
FolderNames ==
    IF request.library.kind = "dir"
    THEN { item.name : item \in { i \in request.library.items : i.is_dir } }
    ELSE {}

TestedModels ==
    IF request.response.kind = "models" THEN request.response.models ELSE <<>>

\* C24: for a reachable service whose catalog holds n named models, of
\* either shape, test_ollama_connection returns connected = true,
\* models_found = n and no error; when the call to the service raises it
\* returns connected = false, models_found = 0 and an error, after one call
\* and without raising.
C24_ConnectionStatus ==
    /\ ( /\ request.op = "test_ollama_connection"
         /\ request.response.kind = "models"
         /\ \A m \in Range(TestedModels) :
               "name" \in DOMAIN m.fields /\ m.fields["name"] # "" ) =>
            /\ result.status = "returned"
            /\ result.value.connected = TRUE
            /\ result.value.models_found = Len(TestedModels)
            /\ result.value.error = None
            /\ result.events = <<"ollama.list">>
    /\ ( /\ request.op = "test_ollama_connection"
         /\ request.response.kind = "raised" ) =>
            /\ result.status = "returned"
            /\ result.value.connected = FALSE
            /\ result.value.models_found = 0
            /\ result.value.error # None
            /\ result.events = <<"ollama.list">>

\* three named models, a dict and an object among them, two of one name
C24_Witness ==
    /\ request.op = "test_ollama_connection"
    /\ request.response.kind = "models"
    /\ Len(TestedModels) = 3
    /\ \A m \in Range(TestedModels) :
          "name" \in DOMAIN m.fields /\ m.fields["name"] # ""
    /\ TestedModels[1].py = "dict"
    /\ TestedModels[2].py = "object"
    /\ TestedModels[3].fields = TestedModels[1].fields
    /\ result.value.models_found = 3

\* C28: every status of test_ollama_connection is consistent: models_found
\* is the length of models, error is null exactly when connected is true,
\* and a status that is not connected has no model.
C28_StatusConsistent ==
    request.op = "test_ollama_connection" =>
        /\ result.value.models_found = Len(result.value.models)
        /\ (result.value.error = None) <=> result.value.connected
        /\ ~result.value.connected =>
              result.value.models_found = 0 /\ result.value.models = <<>>

=============================================================================
